---- MODULE Spec2Model ----
(***************************************************************************)
(* Proof-of-work demo (src/pow.js): the leading-zero-bit predicate, the    *)
(* nonce search of createBlock, the JSON file written by the main script   *)
(* and verifyBlock, in the two variants the source holds: the one that     *)
(* hashes data + timestamp + nonce (lines 1-99) and the one that hashes    *)
(* data + nonce (lines 101-199).                                           *)
(*                                                                         *)
(* Strings are sequences of one-character strings.  JavaScript values are  *)
(* records [t, s, n]: t is the type tag, s the characters of a string, n   *)
(* the value of a number (or 1/0 for a boolean).                           *)
(***************************************************************************)
EXTENDS Integers, Sequences, FiniteSets

\* ---------------------------------------------------------------- bounds
\* Largest nonce the search is followed to (the loop itself is unbounded).
MaxNonce == 30
\* Longest digest the predicate is applied to on its own.
MaxDigestLen == 2
\* Largest zeros argument the predicate is applied to on its own, beyond
\* the bit length of the longest digest.
ZerosBeyond == 2

\* ------------------------------------------------------- JavaScript values
Str(s) == [t |-> "str", s |-> s, n |-> 0]
Num(n) == [t |-> "num", s |-> <<>>, n |-> n]
Bool(b) == [t |-> "bool", s |-> <<>>, n |-> IF b THEN 1 ELSE 0]
Null == [t |-> "null", s |-> <<>>, n |-> 0]
Undefined == [t |-> "undef", s |-> <<>>, n |-> 0]
NaN == [t |-> "nan", s |-> <<>>, n |-> 0]

Digit(d) == <<"0", "1", "2", "3", "4", "5", "6", "7", "8", "9">>[d + 1]

\* Number.prototype.toString of a non-negative integer: its decimal digits.
RECURSIVE NumberToString(_)
NumberToString(n) ==
    IF n < 10 THEN <<Digit(n)>>
    ELSE NumberToString(n \div 10) \o <<Digit(n % 10)>>

\* ToString of a primitive value, as the + operator applies it.
JsToString(v) ==
    CASE v.t = "str" -> v.s
      [] v.t = "num" -> NumberToString(v.n)
      [] v.t = "bool" -> IF v.n = 1 THEN <<"t", "r", "u", "e">>
                         ELSE <<"f", "a", "l", "s", "e">>
      [] v.t = "null" -> <<"n", "u", "l", "l">>
      [] v.t = "undef" -> <<"u", "n", "d", "e", "f", "i", "n", "e", "d">>
      [] v.t = "nan" -> <<"N", "a", "N">>

\* ToNumber of a primitive value that is not a string.
ToNumber(v) ==
    CASE v.t = "num" -> v
      [] v.t = "bool" -> Num(v.n)
      [] v.t = "null" -> Num(0)
      [] OTHER -> NaN

\* The + operator: string concatenation when an operand is a string,
\* numeric addition otherwise.
Plus(a, b) ==
    IF a.t = "str" \/ b.t = "str"
    THEN Str(JsToString(a) \o JsToString(b))
    ELSE IF ToNumber(a).t = "nan" \/ ToNumber(b).t = "nan" THEN NaN
         ELSE Num(ToNumber(a).n + ToNumber(b).n)

\* ------------------------------------------------------------- the digest
\* Characters a hashed message is made of.
Alphabet ==
    <<"0", "1", "2", "3", "4", "5", "6", "7", "8", "9",
      "a", "b", "c", "d", "e", "f", "i", "l", "n", "r", "s", "t", "u",
      "N", "\"", "\\", "\n">>

CharCode(c) == CHOOSE i \in 1..Len(Alphabet) : Alphabet[i] = c

DigestLen == 32

RECURSIVE Mix(_, _)
Mix(msg, upto) ==
    IF upto = 0 THEN 5381
    ELSE (Mix(msg, upto - 1) * 33 + CharCode(msg[upto])) % 65536

\* Stand-in for crypto.createHash("sha256").update(msg).digest(): a
\* deterministic function from messages to 32 bytes.  Bytes 1-2 scatter the
\* number of leading zero bits over 0..12; bytes 3-32 hold the message's
\* characters, so that distinct messages (of up to 30 characters) have
\* distinct digests, as is assumed of SHA-256.
Sha256(msg) ==
    LET m == (Mix(msg, Len(msg)) * 25173 + 13849) % 65536
        lz == (m \div 256) % 13
        top == 2 ^ (15 - lz)
        v == top + (m % top)
    IN  <<v \div 256, v % 256>>
        \o [k \in 1..(DigestLen - 2) |->
                IF k <= Len(msg) THEN CharCode(msg[k]) ELSE 0]

HexDigit(d) ==
    <<"0", "1", "2", "3", "4", "5", "6", "7", "8", "9",
      "a", "b", "c", "d", "e", "f">>[d + 1]

\* Buffer.prototype.toString("hex"): two lowercase hex digits per byte.
ToHex(buf) ==
    [k \in 1..(2 * Len(buf)) |->
        IF k % 2 = 1 THEN HexDigit(buf[(k + 1) \div 2] \div 16)
        ELSE HexDigit(buf[k \div 2] % 16)]

\* ---------------------------------------------------- hasLeadingZeroBits
\* (byte >> bit) & 1
BitOf(byte, bit) == (byte \div (2 ^ bit)) % 2

RECURSIVE ScanBitsOffByOne(_, _, _, _, _)
ScanBitsOffByOne(hashBuffer, zeros, i, bit, count) ==
    IF i > Len(hashBuffer) THEN count > zeros
    ELSE IF bit < 0 THEN ScanBitsOffByOne(hashBuffer, zeros, i + 1, 7, count)
    ELSE IF BitOf(hashBuffer[i], bit) = 0
         THEN IF count + 1 >= zeros THEN TRUE
              ELSE ScanBitsOffByOne(hashBuffer, zeros, i, bit - 1, count + 1)
         ELSE count > zeros

RECURSIVE ScanBitsLowSeven(_, _, _, _, _)
ScanBitsLowSeven(hashBuffer, zeros, i, bit, count) ==
    IF i > Len(hashBuffer) THEN count >= zeros
    ELSE IF bit < 1 THEN ScanBitsLowSeven(hashBuffer, zeros, i + 1, 7, count)
    ELSE IF BitOf(hashBuffer[i], bit) = 0
         THEN IF count + 1 >= zeros THEN TRUE
              ELSE ScanBitsLowSeven(hashBuffer, zeros, i, bit - 1, count + 1)
         ELSE count >= zeros

\* The two nested loops of hasLeadingZeroBits, from byte i (1-based) and
\* bit `bit` on, with `count` zero bits seen so far.
RECURSIVE ScanBits(_, _, _, _, _)
ScanBits(hashBuffer, zeros, i, bit, count) ==
    IF i > Len(hashBuffer) THEN count >= zeros
    ELSE IF bit < 0 THEN ScanBits(hashBuffer, zeros, i + 1, 7, count)
    ELSE IF BitOf(hashBuffer[i], bit) = 0
         THEN IF count + 1 >= zeros THEN TRUE
              ELSE ScanBits(hashBuffer, zeros, i, bit - 1, count + 1)
         ELSE count >= zeros

hasLeadingZeroBits(hashBuffer, zeros) == ScanBits(hashBuffer, zeros, 1, 7, 0)

\* ------------------------------------------------------------------ JSON
\* An object is its sequence of members [k, v], in insertion order.
Member(k, v) == [k |-> k, v |-> v]

KHash == <<"h", "a", "s", "h">>
KData == <<"d", "a", "t", "a">>
KNonce == <<"n", "o", "n", "c", "e">>
KTimestamp == <<"t", "i", "m", "e", "s", "t", "a", "m", "p">>

EscapeCharPlain(c) == <<c>>

\* The JSON escape of a character of a string.
EscapeChar(c) ==
    CASE c = "\"" -> <<"\\", "\"">>
      [] c = "\\" -> <<"\\", "\\">>
      [] c = "\n" -> <<"\\", "n">>
      [] OTHER -> <<c>>

\* The characters of s from the i-th on, escaped.
RECURSIVE EscapeFrom(_, _)
EscapeFrom(s, i) ==
    IF i > Len(s) THEN <<>> ELSE EscapeChar(s[i]) \o EscapeFrom(s, i + 1)

\* A string without characters to escape is its own escaped form.
Escape(s) ==
    IF \A i \in 1..Len(s) : s[i] \notin {"\"", "\\", "\n"} THEN s
    ELSE EscapeFrom(s, 1)

Quote(s) == <<"\"">> \o Escape(s) \o <<"\"">>

\* The JSON text of a primitive value.
StringifyValue(v) ==
    CASE v.t = "str" -> Quote(v.s)
      [] v.t = "num" -> NumberToString(v.n)
      [] v.t = "bool" -> JsToString(v)
      [] OTHER -> <<"n", "u", "l", "l">>

Indent == <<" ", " ", " ", " ">>

\* The lines of the members of m from the j-th on.
RECURSIVE StringifyMembers(_, _)
StringifyMembers(m, j) ==
    IF j > Len(m) THEN <<>>
    ELSE <<"\n">> \o Indent \o Quote(m[j].k) \o <<":", " ">>
         \o StringifyValue(m[j].v)
         \o (IF j < Len(m) THEN <<",">> ELSE <<>>)
         \o StringifyMembers(m, j + 1)

\* JSON.stringify(block, null, 4) of an object of primitive values.
Stringify(m) ==
    IF Len(m) = 0 THEN <<"{", "}">>
    ELSE <<"{">> \o StringifyMembers(m, 1) \o <<"\n", "}">>

\* The outcome of a parsing step: ok, the value (v) or members (m) read,
\* and the position after them.
Fail == [ok |-> FALSE, obj |-> FALSE, v |-> Null, m |-> <<>>, next |-> 0]
Value(v, next) == [ok |-> TRUE, obj |-> FALSE, v |-> v, m |-> <<>>, next |-> next]
Object(m, next) == [ok |-> TRUE, obj |-> TRUE, v |-> Null, m |-> m, next |-> next]

IsDigit(c) == c \in {"0", "1", "2", "3", "4", "5", "6", "7", "8", "9"}
DigitValue(c) == CHOOSE d \in 0..9 : Digit(d) = c

RECURSIVE SkipWs(_, _)
SkipWs(t, i) ==
    IF i <= Len(t) /\ t[i] \in {" ", "\n"} THEN SkipWs(t, i + 1) ELSE i

\* The reading of a string literal: in its body, after a backslash, closed
\* by its quote (next is the position after it), or malformed ("bad").
InString(mode, s, next) == [mode |-> mode, s |-> s, next |-> next]

\* The reading st of a string literal after character c, at position p.
StringStep(st, c, p) ==
    IF st.mode = "escape"
    THEN IF c \in {"\"", "\\"} THEN InString("body", Append(st.s, c), 0)
         ELSE IF c = "n" THEN InString("body", Append(st.s, "\n"), 0)
         ELSE InString("bad", <<>>, 0)
    ELSE IF c = "\"" THEN InString("closed", st.s, p + 1)
    ELSE IF c = "\\" THEN InString("escape", st.s, 0)
    ELSE IF c = "\n" THEN InString("bad", <<>>, 0)
    ELSE InString("body", Append(st.s, c), 0)

\* The reading st of a string literal carried on from position i of t.
RECURSIVE ScanString(_, _, _)
ScanString(t, i, st) ==
    IF st.mode \in {"closed", "bad"} THEN st
    ELSE IF i > Len(t) THEN InString("bad", <<>>, 0)
    ELSE ScanString(t, i + 1, StringStep(st, t[i], i))

\* The string literal whose first character is at position i (after the
\* opening quote): read in one piece when no backslash or line break comes
\* before the next quote, character by character otherwise.
ParseString(t, i) ==
    LET quotes == {p \in i..Len(t) : t[p] = "\""}
        first == CHOOSE p \in quotes : \A q \in quotes : p <= q
        end == ScanString(t, i, InString("body", <<>>, 0))
    IN  IF quotes = {} THEN Fail
        ELSE IF \A p \in i..(first - 1) : t[p] \notin {"\\", "\n"}
             THEN Value(Str(SubSeq(t, i, first - 1)), first + 1)
        ELSE IF end.mode = "closed" THEN Value(Str(end.s), end.next)
        ELSE Fail

RECURSIVE ParseDigits(_, _, _)
ParseDigits(t, i, n) ==
    IF i <= Len(t) /\ IsDigit(t[i])
    THEN ParseDigits(t, i + 1, n * 10 + DigitValue(t[i]))
    ELSE Value(Num(n), i)

\* A non-negative integer literal: 0, or a digit 1-9 and more digits.
ParseNumber(t, i) ==
    IF t[i] = "0" THEN Value(Num(0), i + 1) ELSE ParseDigits(t, i, 0)

ParseLiteral(t, i, word, v) ==
    IF i + Len(word) - 1 <= Len(t) /\ SubSeq(t, i, i + Len(word) - 1) = word
    THEN Value(v, i + Len(word))
    ELSE Fail

\* A primitive value at position i.
ParseValue(t, i) ==
    IF i > Len(t) THEN Fail
    ELSE IF t[i] = "\"" THEN ParseString(t, i + 1)
    ELSE IF IsDigit(t[i]) THEN ParseNumber(t, i)
    ELSE IF t[i] = "n" THEN ParseLiteral(t, i, <<"n", "u", "l", "l">>, Null)
    ELSE IF t[i] = "t"
         THEN ParseLiteral(t, i, <<"t", "r", "u", "e">>, Bool(TRUE))
    ELSE IF t[i] = "f"
         THEN ParseLiteral(t, i, <<"f", "a", "l", "s", "e">>, Bool(FALSE))
    ELSE Fail

\* The members of an object from position i (a member's key) on.
RECURSIVE ParseMembers(_, _, _)
ParseMembers(t, i, acc) ==
    IF i > Len(t) \/ t[i] # "\"" THEN Fail
    ELSE
      LET key == ParseString(t, i + 1)
          colon == SkipWs(t, key.next)
          val == ParseValue(t, SkipWs(t, colon + 1))
          after == SkipWs(t, val.next)
      IN  IF ~key.ok \/ colon > Len(t) THEN Fail
          ELSE IF t[colon] # ":" THEN Fail
          ELSE IF ~val.ok \/ after > Len(t) THEN Fail
          ELSE IF t[after] = "}"
               THEN Object(Append(acc, Member(key.v.s, val.v)), after + 1)
          ELSE IF t[after] = ","
               THEN ParseMembers(t, SkipWs(t, after + 1),
                                 Append(acc, Member(key.v.s, val.v)))
          ELSE Fail

\* JSON.parse of a text holding a primitive or an object of primitives:
\* Fail stands for the SyntaxError.
JsonParse(t) ==
    LET i == SkipWs(t, 1)
        first == IF i > Len(t) THEN Fail
                 ELSE IF t[i] = "{"
                      THEN IF SkipWs(t, i + 1) <= Len(t) /\ t[SkipWs(t, i + 1)] = "}"
                           THEN Object(<<>>, SkipWs(t, i + 1) + 1)
                           ELSE ParseMembers(t, SkipWs(t, i + 1), <<>>)
                      ELSE ParseValue(t, i)
    IN  IF first.ok /\ SkipWs(t, first.next) = Len(t) + 1 THEN first ELSE Fail

Has(m, k) == \E j \in 1..Len(m) : m[j].k = k

\* The value of property k of an object: that of its last member named k,
\* undefined when it has none.
Get(m, k) ==
    IF ~Has(m, k) THEN Undefined
    ELSE m[CHOOSE j \in 1..Len(m) :
              m[j].k = k /\ \A later \in (j + 1)..Len(m) : m[later].k # k].v

\* The object with property k set to v (in place, or added at the end).
Set(m, k, v) ==
    IF Has(m, k) THEN [j \in 1..Len(m) |-> IF m[j].k = k THEN Member(k, v) ELSE m[j]]
    ELSE Append(m, Member(k, v))

\* The object without property k.
Remove(m, k) == SelectSeq(m, LAMBDA member : member.k # k)

\* ----------------------------------------------------------------- state
VARIABLES
    pc,             \* where the main script is
    variant,        \* which createBlock runs: "timestamp" or "plain"
    data,           \* createBlock's data argument (characters)
    startingZeros,  \* createBlock's startingZeros / the predicate's zeros
    timestamp,      \* the value of Date.now() taken before the loop
    nonce,          \* createBlock's nonce
    hashBuffer,     \* the last digest computed / the predicate's argument
    hash,           \* its hex form
    block,          \* the object createBlock returned (its members)
    file,           \* block.json: [exists, readable, text]
    edits,          \* what was done to block.json after it was written
    verifier,       \* which verifyBlock ran
    result          \* what the call under study returned

vars == <<pc, variant, data, startingZeros, timestamp, nonce, hashBuffer, hash,
          block, file, edits, verifier, result>>

Variants == {"timestamp", "plain"}

\* Inputs followed by the model.
Datas == {<<>>, <<"a", "1">>, <<"\"", "\\", "\n">>}
Timestamps == {7, 12}
ZerosChoices == {0, 1, 4, 8, 9, 12, 13, 257}

NoFile == [exists |-> FALSE, readable |-> FALSE, text |-> <<>>]
TextFile(t) == [exists |-> TRUE, readable |-> TRUE, text |-> t]
NoEdit == [op |-> "none", f |-> <<>>]

\* data + timestamp + nonce (line 47), or data + nonce (line 141).
CombinedNoTimestamp(v, d, ts, n) == Plus(d, n)

Combined(v, d, ts, n) ==
    IF v = "timestamp" THEN Plus(Plus(d, ts), n) ELSE Plus(d, n)

Init ==
    /\ pc = "start"
    /\ variant = "plain"
    /\ data = <<>>
    /\ startingZeros = 0
    /\ timestamp = Undefined
    /\ nonce = 0
    /\ hashBuffer = <<>>
    /\ hash = <<>>
    /\ block = <<>>
    /\ file = NoFile
    /\ edits = NoEdit
    /\ verifier = "plain"
    /\ result = "none"

\* ----------------------------------------------------------- createBlock
\* The call: nonce = 0 and, in the timestamp variant, Date.now().
CreateBlock(v, d, z, now) ==
    /\ pc = "start"
    /\ pc' = "loop"
    /\ variant' = v
    /\ data' = d
    /\ startingZeros' = z
    /\ timestamp' = IF v = "timestamp" THEN Num(now) ELSE Undefined
    /\ nonce' = 0
    /\ UNCHANGED <<hashBuffer, hash, block, file, edits, verifier, result>>

NextNonceSkip(n) == n + 2

NextNonceStuck(n) == n

\* nonce++
NextNonce(n) == n + 1

\* The test that leaves the loop (lines 50, 144).
Break(buf, zeros) == hasLeadingZeroBits(buf, zeros)

\* One pass of the while (true) loop: hash the candidate, then break or
\* raise the nonce.
LoopIteration ==
    /\ pc = "loop"
    /\ nonce <= MaxNonce
    /\ \E buf \in {Sha256(Combined(variant, Str(data), timestamp, Num(nonce)).s)} :
           /\ hashBuffer' = buf
           /\ hash' = ToHex(buf)
           /\ IF Break(buf, startingZeros)
              THEN pc' = "break" /\ nonce' = nonce
              ELSE pc' = "loop" /\ nonce' = NextNonce(nonce)
    /\ UNCHANGED <<variant, data, startingZeros, timestamp, block, file, edits,
                   verifier, result>>

ReturnedStaleData(v, h, d, n, ts) ==
    IF v = "timestamp"
    THEN <<Member(KHash, Str(h)), Member(KData, Str(<<>>)),
           Member(KNonce, Num(n)), Member(KTimestamp, ts)>>
    ELSE <<Member(KHash, Str(h)), Member(KData, Str(<<>>)), Member(KNonce, Num(n))>>

\* The object returned (lines 56, 151-156).
Returned(v, h, d, n, ts) ==
    IF v = "timestamp"
    THEN <<Member(KHash, Str(h)), Member(KData, Str(d)),
           Member(KNonce, Num(n)), Member(KTimestamp, ts)>>
    ELSE <<Member(KHash, Str(h)), Member(KData, Str(d)), Member(KNonce, Num(n))>>

ReturnBlock ==
    /\ pc = "break"
    /\ pc' = "created"
    /\ block' = Returned(variant, hash, data, nonce, timestamp)
    /\ UNCHANGED <<variant, data, startingZeros, timestamp, nonce, hashBuffer,
                   hash, file, edits, verifier, result>>

\* ----------------------------------------------------------- main script
\* fs.writeFileSync(filePath, JSON.stringify(block, null, 4))
WriteFile ==
    /\ pc = "created"
    /\ pc' = "saved"
    /\ file' = TextFile(Stringify(block))
    /\ UNCHANGED <<variant, data, startingZeros, timestamp, nonce, hashBuffer,
                   hash, block, edits, verifier, result>>

\* ----------------------------------------------------------- verifyBlock
\* The try block: "true" or "false" as returned, "throw" when a statement
\* of it throws (readFileSync, JSON.parse, the destructuring of null, or
\* update() given something that is not a string).
VerifyParsed(v, parsed) ==
    IF ~parsed.ok THEN "throw"
    ELSE IF ~parsed.obj /\ parsed.v.t = "null" THEN "throw"
    ELSE
      LET m == parsed.m
          message == Combined(v, Get(m, KData), Get(m, KTimestamp), Get(m, KNonce))
      IN  IF message.t # "str" THEN "throw"
          ELSE IF Str(ToHex(Sha256(message.s))) = Get(m, KHash) THEN "true"
          ELSE "false"

VerifyTry(v, f) ==
    IF ~f.exists \/ ~f.readable THEN "throw"
    ELSE CHOOSE outcome \in {VerifyParsed(v, parsed) : parsed \in {JsonParse(f.text)}} :
            TRUE

verifyBlockNoCatch(v, f) == VerifyTry(v, f)

\* verifyBlock: the try block, and false from the catch clause.
verifyBlock(v, f) ==
    IF VerifyTry(v, f) = "throw" THEN "false" ELSE VerifyTry(v, f)

VerifyBlock(v) ==
    /\ pc = "saved"
    /\ pc' = "verified"
    /\ verifier' = v
    /\ result' = verifyBlock(v, file)
    /\ UNCHANGED <<variant, data, startingZeros, timestamp, nonce, hashBuffer,
                   hash, block, file, edits>>

\* ------------------------------------------- block.json between the calls
\* Values an editor of block.json puts in place of the value of field f: a
\* few fixed ones, the field's value retyped as a string and, for the hash,
\* the digest of another message.
TamperValues(f, current) ==
    {Str(<<>>), Str(<<"a">>), Str(<<"a", "1">>), Num(0), Num(1), Num(12),
     Null, Bool(TRUE), Str(JsToString(current))}
    \cup (IF f = KHash THEN {Str(ToHex(Sha256(<<"a">>)))} ELSE {})

Fields == {KHash, KData, KNonce, KTimestamp}

\* One field of the stored record gets another value.
TamperField(f) ==
    /\ pc = "saved"
    /\ edits.op = "none"
    /\ \E parsed \in {JsonParse(file.text)} :
        /\ parsed.ok /\ parsed.obj
        /\ Has(parsed.m, f)
        /\ \E v \in TamperValues(f, Get(parsed.m, f)) \ {Get(parsed.m, f)} :
              file' = TextFile(Stringify(Set(parsed.m, f, v)))
    /\ edits' = [op |-> "replace", f |-> f]
    /\ UNCHANGED <<pc, variant, data, startingZeros, timestamp, nonce,
                   hashBuffer, hash, block, verifier, result>>

\* One field of the stored record is removed.
DropField(f) ==
    /\ pc = "saved"
    /\ edits.op \in {"none", "drop"}
    /\ \E parsed \in {JsonParse(file.text)} :
        /\ parsed.ok /\ parsed.obj
        /\ Has(parsed.m, f)
        /\ file' = TextFile(Stringify(Remove(parsed.m, f)))
    /\ edits' = [op |-> "drop", f |-> <<>>]
    /\ UNCHANGED <<pc, variant, data, startingZeros, timestamp, nonce,
                   hashBuffer, hash, block, verifier, result>>

\* After fields were removed, the hash field is set to the digest of what
\* is left, as the verifyBlock of variant v will read it.
ForgeHash(v) ==
    /\ pc = "saved"
    /\ edits.op = "drop"
    /\ \E parsed \in {JsonParse(file.text)} :
        LET m == parsed.m
            message == Combined(v, Get(m, KData), Get(m, KTimestamp), Get(m, KNonce))
        IN  /\ parsed.ok /\ parsed.obj
            /\ message.t = "str"
            /\ file' = TextFile(Stringify(Set(m, KHash, Str(ToHex(Sha256(message.s))))))
    /\ edits' = [op |-> "forge", f |-> <<>>]
    /\ UNCHANGED <<pc, variant, data, startingZeros, timestamp, nonce,
                   hashBuffer, hash, block, verifier, result>>

\* The file is cut after its first k characters.
TruncateFile(k) ==
    /\ pc = "saved"
    /\ edits.op = "none"
    /\ file.exists /\ file.readable
    /\ file' = TextFile(SubSeq(file.text, 1, k))
    /\ edits' = [op |-> "truncate", f |-> <<>>]
    /\ UNCHANGED <<pc, variant, data, startingZeros, timestamp, nonce,
                   hashBuffer, hash, block, verifier, result>>

\* Other JSON documents that are not records.
OtherTexts ==
    {<<"n", "u", "l", "l">>, <<"7">>, <<"\"", "a", "\"">>, <<"{", "}">>,
     <<"t", "r", "u", "e">>, <<" ", "{", " ", "}", "\n">>}

OverwriteFile(t) ==
    /\ pc = "saved"
    /\ edits.op = "none"
    /\ file' = TextFile(t)
    /\ edits' = [op |-> "overwrite", f |-> <<>>]
    /\ UNCHANGED <<pc, variant, data, startingZeros, timestamp, nonce,
                   hashBuffer, hash, block, verifier, result>>

DeleteFile ==
    /\ pc = "saved"
    /\ edits.op = "none"
    /\ file' = NoFile
    /\ edits' = [op |-> "delete", f |-> <<>>]
    /\ UNCHANGED <<pc, variant, data, startingZeros, timestamp, nonce,
                   hashBuffer, hash, block, verifier, result>>

\* The file stays but can no longer be read.
RevokeRead ==
    /\ pc = "saved"
    /\ edits.op = "none"
    /\ file' = [file EXCEPT !.readable = FALSE]
    /\ edits' = [op |-> "unreadable", f |-> <<>>]
    /\ UNCHANGED <<pc, variant, data, startingZeros, timestamp, nonce,
                   hashBuffer, hash, block, verifier, result>>

\* -------------------------------------------------------- specifications
Mine ==
    \/ \E v \in Variants, d \in Datas, z \in ZerosChoices, now \in Timestamps :
          CreateBlock(v, d, z, now)
    \/ LoopIteration
    \/ ReturnBlock

Next ==
    \/ Mine
    \/ WriteFile
    \/ \E f \in Fields : TamperField(f)
    \/ \E f \in Fields : DropField(f)
    \/ \E v \in Variants : ForgeHash(v)
    \/ \E k \in 0..(Len(file.text) - 1) : TruncateFile(k)
    \/ \E t \in OtherTexts : OverwriteFile(t)
    \/ DeleteFile
    \/ RevokeRead
    \/ \E v \in Variants : VerifyBlock(v)

Spec == Init /\ [][Next]_vars

\* The search alone, run by a thread that is never held up.
MineSpec ==
    Init /\ [][Mine]_vars /\ WF_vars(LoopIteration) /\ WF_vars(ReturnBlock)

\* The predicate on its own, on digests of up to MaxDigestLen bytes.
PredicateBytes == {0, 1, 2, 4, 8, 16, 32, 64, 127, 128, 255}

Digests ==
    UNION {[1..len -> PredicateBytes] : len \in 0..MaxDigestLen}

PredicateInit ==
    /\ pc = "predicate"
    /\ hashBuffer \in Digests
    /\ startingZeros \in 0..(8 * MaxDigestLen + ZerosBeyond)
    /\ variant = "plain"
    /\ data = <<>>
    /\ timestamp = Undefined
    /\ nonce = 0
    /\ hash = <<>>
    /\ block = <<>>
    /\ file = NoFile
    /\ edits = NoEdit
    /\ verifier = "plain"
    /\ result = "none"

CallPredicate ==
    /\ pc = "predicate"
    /\ pc' = "predicate returned"
    /\ result' = IF hasLeadingZeroBits(hashBuffer, startingZeros)
                 THEN "true" ELSE "false"
    /\ UNCHANGED <<variant, data, startingZeros, timestamp, nonce, hashBuffer,
                   hash, block, file, edits, verifier>>

PredicateSpec == PredicateInit /\ [][CallPredicate]_vars

\* ------------------------------------------------------------- properties
\* The number of 0 bits of a digest before its first 1 bit: bit p of the
\* digest (p = 1 is the most significant bit of the first byte).
DigestBit(d, p) == (d[(p - 1) \div 8 + 1] \div (2 ^ (7 - ((p - 1) % 8)))) % 2

LeadingZeroBits(d) ==
    IF \E p \in 1..(8 * Len(d)) : DigestBit(d, p) = 1
    THEN (CHOOSE p \in 1..(8 * Len(d)) :
             DigestBit(d, p) = 1 /\ \A q \in 1..(p - 1) : DigestBit(d, q) = 0) - 1
    ELSE 8 * Len(d)

\* The message of variant v for data d, timestamp ts and nonce n: their
\* texts one after the other.
Message(v, d, ts, n) ==
    IF v = "timestamp" THEN d \o NumberToString(ts) \o NumberToString(n)
    ELSE d \o NumberToString(n)

\* Nonce n gives the running search a digest with enough leading zero bits.
Accepts(n) ==
    \E digest \in {Sha256(Message(variant, data, timestamp.n, n))} :
        LeadingZeroBits(digest) >= startingZeros

\* C1: Round trip: the record createBlock returned, written to block.json
\* and left as written, is accepted by the verifyBlock of the same variant.
C1_RoundTrip ==
    (pc = "verified" /\ edits.op = "none" /\ verifier = variant) => result = "true"

C1_Witness ==
    /\ pc = "verified" /\ edits.op = "none" /\ verifier = variant
    /\ result = "true"
    /\ data = <<"\"", "\\", "\n">>
    /\ nonce >= 10

\* C2: Tamper detection: after exactly one of data, nonce or hash of a valid
\* stored record got another value, verifyBlock returns false.
C2_TamperDetected ==
    (/\ pc = "verified"
     /\ verifier = variant
     /\ edits.op = "replace"
     /\ edits.f \in {KData, KNonce, KHash})
    => result = "false"

\* C3: hasLeadingZeroBits(digest, zeros) is true exactly when the digest has
\* at least zeros leading zero bits: so always for zeros = 0, and never for
\* zeros above the digest's bit length.
C3_PredicateCounts ==
    pc = "predicate returned" =>
        /\ (result = "true") <=> (LeadingZeroBits(hashBuffer) >= startingZeros)
        /\ startingZeros = 0 => result = "true"
        /\ startingZeros > 8 * Len(hashBuffer) => result = "false"

C3_Witness ==
    /\ pc = "predicate returned"
    /\ Len(hashBuffer) = MaxDigestLen
    /\ \A k \in 1..Len(hashBuffer) : hashBuffer[k] = 0
    /\ startingZeros = 8 * MaxDigestLen + 1
    /\ result = "false"

\* C4 as amended: a digest that starts with the bytes 0x00 0x80 has exactly
\* 8 leading zero bits: the predicate is true for 8 zeros, false for 9 and
\* false for 10.
C4_EightLeadingZeros ==
    (/\ pc = "predicate returned"
     /\ Len(hashBuffer) >= 2
     /\ hashBuffer[1] = 0
     /\ hashBuffer[2] = 128)
    => /\ startingZeros = 8 => result = "true"
       /\ startingZeros = 9 => result = "false"
       /\ startingZeros = 10 => result = "false"

\* C4 as stated: on a digest that starts with the bytes 0x00 0x80 the
\* predicate is true for 9 zeros and false for 10.
C4_ZeroThenHighBit ==
    (/\ pc = "predicate returned"
     /\ Len(hashBuffer) >= 2
     /\ hashBuffer[1] = 0
     /\ hashBuffer[2] = 128)
    => /\ startingZeros = 9 => result = "true"
       /\ startingZeros = 10 => result = "false"

C4_Witness ==
    /\ pc = "predicate returned"
    /\ Len(hashBuffer) >= 2
    /\ hashBuffer[1] = 0
    /\ hashBuffer[2] = 128
    /\ startingZeros = 9
    /\ result = "false"

\* C5: the record createBlock returns holds the data argument, the hex form
\* of the digest of data, (timestamp,) nonce for its own nonce and
\* timestamp, and that digest has at least startingZeros leading zero bits
\* (a first byte of 0x00 for 8 or more).
C5_ReturnedRecord ==
    pc \in {"created", "saved", "verified"} =>
        \A digest \in {Sha256(Message(variant, data, Get(block, KTimestamp).n,
                                        Get(block, KNonce).n))} :
            /\ Get(block, KData) = Str(data)
            /\ Get(block, KNonce).t = "num"
            /\ Has(block, KTimestamp) <=> variant = "timestamp"
            /\ Get(block, KHash) = Str(ToHex(digest))
            /\ LeadingZeroBits(digest) >= startingZeros
            /\ startingZeros >= 8 => digest[1] = 0

C5_Witness ==
    /\ pc = "created"
    /\ startingZeros = 8
    /\ Get(block, KNonce).n > 0
    /\ data = <<"a", "1">>
    /\ hashBuffer[1] = 0

\* Whether the text of block.json is well-formed JSON.
WellFormed == file.exists /\ file.readable /\ JsonParse(file.text).ok

\* C6: verifyBlock returns false, and throws nothing, when block.json is
\* missing, unreadable or not well-formed JSON; it always returns a boolean.
C6_LoadFailureIsFalse ==
    pc = "verified" =>
        /\ result \in {"true", "false"}
        /\ ~WellFormed => result = "false"

C6_Witness ==
    /\ pc = "verified"
    /\ edits.op = "truncate"
    /\ Len(file.text) > 0
    /\ ~WellFormed
    /\ result = "false"

\* The fields the verifyBlock of variant v reads.
Required(v) ==
    IF v = "timestamp" THEN {KHash, KData, KNonce, KTimestamp}
    ELSE {KHash, KData, KNonce}

\* C7: a stored document that is well-formed JSON but lacks a required
\* field is rejected by verifyBlock, whatever its other fields hold.
C7_MissingFieldRejected ==
    (/\ pc = "verified"
     /\ WellFormed
     /\ \E f \in Required(verifier) : ~Has(JsonParse(file.text).m, f))
    => result = "false"

\* C8: a record mined by one variant and stored as written is rejected by
\* the verifyBlock of the other variant.
C8_MixedFormatsRejected ==
    (pc = "verified" /\ edits.op = "none" /\ verifier # variant) => result = "false"

C8_Witness ==
    /\ pc = "verified" /\ edits.op = "none"
    /\ variant = "timestamp" /\ verifier = "plain"
    /\ Get(block, KNonce).n > 0
    /\ result = "false"

\* Some nonce the search is followed to is accepted.
Achievable == \E n \in 0..MaxNonce : Accepts(n)

\* C9: the search returns whenever some nonce is accepted, and never
\* returns when none is (as when startingZeros is above the digest's 256
\* bits).
C9_SearchTerminates ==
    /\ (pc = "loop" /\ Achievable) ~> (pc = "created")
    /\ []((pc # "start" /\ ~Achievable) => pc = "loop")

C9_Witness ==
    /\ pc = "created"
    /\ startingZeros >= 8
    /\ nonce >= 3

\* C10: the search starts at nonce 0, goes up by exactly 1 after each
\* rejected candidate with data and timestamp unchanged, and returns the
\* least accepted nonce.
C10_LeastNonce ==
    /\ [](pc = "loop" => \A n \in 0..(nonce - 1) : ~Accepts(n))
    /\ [](pc = "created" =>
            /\ Get(block, KNonce) = Num(nonce)
            /\ Accepts(nonce)
            /\ \A n \in 0..(nonce - 1) : ~Accepts(n))
    /\ [][pc = "start" /\ pc' = "loop" => nonce' = 0]_vars
    /\ [][pc = "loop" =>
            /\ nonce' \in {nonce, nonce + 1}
            /\ (pc' = "loop") <=> (nonce' = nonce + 1)
            /\ data' = data /\ timestamp' = timestamp]_vars

C10_Witness ==
    /\ pc = "created"
    /\ variant = "timestamp"
    /\ Get(block, KNonce).n >= 2
    /\ Get(block, KTimestamp) = timestamp

====
